---- MODULE Spec2Model ----
(***************************************************************************)
(* Model of Tools/Bundle.py, the INIT.BND bundler: load_entries, the       *)
(* two-pass build_bundle (layout loop, then serialization) and main.       *)
(* Bytes are integers 0..255; a bytes object and the output file are       *)
(* sequences of bytes.  An entry dict is a record whose keys offset, size  *)
(* and checksum hold Absent until build_bundle assigns them.  A payload is *)
(* an immutable bytes object: an entry holds a reference to it, named by   *)
(* the file it was read from, and FileBytes gives the object's bytes.      *)
(***************************************************************************)
EXTENDS Integers, Sequences, FiniteSets, TLC

(* ------------------------------ bounds --------------------------------- *)

\* Largest entryCount the header's count field accepts.  The "H" field of
\* HEADER_FMT holds 0..65535; the model scales that capacity down so that a
\* list one entry too long for the field is within reach.
MaxEntryCount == 3

\* Longest manifest: one item more than the count field can hold.  (Lists
\* passed to build_bundle directly have at most MaxEntryCount entries.)
MaxItems == MaxEntryCount + 1

(* --------------------------- program constants ------------------------- *)

\* field widths of "<8sHHI8s": magic, version, entryCount, tableOffset, reserved
HEADER_FMT == <<8, 2, 2, 4, 8>>
\* field widths of "<32sBB2sIII": name, type, flags, reserved, offset, size, checksum
ENTRY_FMT == <<32, 1, 1, 2, 4, 4, 4>>
ALIGN == 4096
\* b"INITBND\x00"
MAGIC == <<73, 78, 73, 84, 66, 78, 68, 0>>
VERSION == 1

\* marks a key an entry dict does not (yet) have
Absent == -1

\* TYPE_MAP.get(type_str, 0)
TYPE_MAP(type_str) ==
    CASE type_str = "init" -> 1
      [] type_str = "driver" -> 2
      [] type_str = "service" -> 3
      [] OTHER -> 0

(* ------------------------------ helpers -------------------------------- *)

\* b"\x00" * n
Zeros(n) == [k \in 1..n |-> 0]

RECURSIVE SumSeq(_)
SumSeq(s) == IF s = <<>> THEN 0 ELSE Head(s) + SumSeq(Tail(s))

\* struct.calcsize of a "<" (packed, no alignment) format
calcsize(fmt) == SumSeq(fmt)

\* (value + alignment - 1) & ~(alignment - 1): for a power-of-two alignment
\* the mask clears the bits below it, i.e. subtracts the remainder.
align_up_identity(value, alignment) == value
align_up_next(value, alignment) == (value \div alignment + 1) * alignment
align_up(value, alignment) ==
    LET x == value + alignment - 1 IN x - (x % alignment)

\* little-endian encodings of the "H" and "I" fields
LE16(v) == <<v % 256, (v \div 256) % 256>>
BE32(v) == <<(v \div 16777216) % 256, (v \div 65536) % 256, (v \div 256) % 256, v % 256>>
LE32(v) == <<v % 256, (v \div 256) % 256, (v \div 65536) % 256, (v \div 16777216) % 256>>

\* struct.pack raises struct.error when a number does not fit its field
FitsU8(v) == v >= 0 /\ v <= 255
FitsU16(v) == v >= 0 /\ v <= MaxEntryCount
FitsU32(v) == v >= 0 /\ v \div 65536 <= 65535

\* bytes.ljust(width, fill)
ljust_space(b, width) == IF Len(b) >= width THEN b ELSE b \o [k \in 1..(width - Len(b)) |-> 32]
ljust(b, width) == IF Len(b) >= width THEN b ELSE b \o Zeros(width - Len(b))

\* the "<n>s" field: the bytes truncated or null-padded to exactly n
PackS(b, n) == IF Len(b) >= n THEN SubSeq(b, 1, n) ELSE b \o Zeros(n - Len(b))

\* str.lower() on the type strings of the manifests considered
Lower(s) ==
    CASE s = "Driver" -> "driver"
      [] s = "INIT" -> "init"
      [] OTHER -> s

\* name.encode("ascii", errors="strict") succeeds iff every code point is < 128
IsAscii(name) == \A k \in 1..Len(name) : name[k] < 128

(* ------------------------------- inputs -------------------------------- *)

\* contents of a payload file of n bytes (no zero byte, so that payload and
\* padding can be told apart)
Bytes(n, seed) == [k \in 1..n |-> 1 + ((k + seed) % 255)]

\* the payload files under the base directory
IsFile(path) == path \in {"init.bin", "drv0.bin", "svc0.bin", "page.bin"}
FileBytes(path) ==
    CASE path = "init.bin" -> Bytes(10, 0)
      [] path = "drv0.bin" -> Bytes(5000, 7)
      [] path = "svc0.bin" -> <<>>
      [] path = "page.bin" -> Bytes(ALIGN, 40)
      [] OTHER -> <<>>

\* names, as sequences of code points
NameInit == <<105, 110, 105, 116>>
NameDrv0 == <<100, 114, 118, 48>>
NameSvc0 == <<115, 118, 99, 48>>
Name31 == [k \in 1..31 |-> 97 + (k % 26)]
Name32 == [k \in 1..32 |-> 97 + (k % 26)]
Name33 == [k \in 1..33 |-> 97 + (k % 26)]
NameNonAscii == <<99, 97, 102, 233>>

\* manifest items: item.get("name") / item.get("path") that are missing, None
\* or "" are the empty sequence / the empty string ("not name" treats them alike)
Item(name, path, type, required) ==
    [name |-> name, path |-> path, type |-> type, required |-> required]
VALID_ITEMS ==
    { Item(NameInit, "init.bin", "INIT", TRUE),
      Item(NameDrv0, "drv0.bin", "Driver", FALSE),
      Item(NameSvc0, "svc0.bin", "service", FALSE),
      Item(Name31, "page.bin", "firmware", FALSE) }
INVALID_ITEMS ==
    { Item(<<>>, "init.bin", "init", TRUE),
      Item(NameInit, "", "init", TRUE),
      Item(Name32, "init.bin", "driver", FALSE),
      Item(NameNonAscii, "init.bin", "service", FALSE),
      Item(NameDrv0, "gone.bin", "driver", FALSE) }
MANIFEST_ITEMS == VALID_ITEMS \cup INVALID_ITEMS

\* the directory part of --output: os.path.dirname(args.output)
OUTPUT_DIRS == {"", "out"}

SeqsUpTo(S, n) == UNION { [1..k -> S] : k \in 0..n }

(* ------------------------------ load_entries --------------------------- *)

\* the dict appended for one accepted item; payload is the bytes object read
\* from the item's file
Entry(name_bytes, type_byte, flags, payload) ==
    [name |-> name_bytes, type |-> type_byte, flags |-> flags, payload |-> payload,
     offset |-> Absent, size |-> Absent, checksum |-> Absent]

\* len(name_bytes) > 31
NameTooLong32(name_bytes) == Len(name_bytes) > 32
NameTooLong(name_bytes) == Len(name_bytes) > 31

\* the exception one loop iteration raises for an item, "" if none
LoadError(item) ==
    IF item.name = <<>> \/ item.path = "" THEN "ValueError"
    ELSE IF ~IsAscii(item.name) THEN "UnicodeEncodeError"
    ELSE IF NameTooLong(item.name) THEN "ValueError"
    ELSE IF ~IsFile(item.path) THEN "FileNotFoundError"
    ELSE ""

LoadedEntry(item) ==
    Entry(item.name, TYPE_MAP(Lower(item.type)),
          IF item.required THEN 1 ELSE 0, item.path)

\* the bytes of e["payload"]
PayloadBytes(e) == FileBytes(e.payload)

\* entry lists handed to build_bundle by a caller other than main: what
\* load_entries produces, and dicts it would have refused
API_ENTRIES ==
    { LoadedEntry(it) : it \in VALID_ITEMS } \cup
    { Entry(<<>>, 1, 1, "init.bin"),
      Entry(Name33, 2, 0, "init.bin"),
      Entry(NameNonAscii, 3, 0, "init.bin") }

(* ------------------------------- state --------------------------------- *)

VARIABLES
    mode,           \* "main": a run of main();  "api": build_bundle called directly
    manifest,       \* json.load(f): the list of manifest items
    output_dir,     \* os.path.dirname(args.output)
    entries,        \* the list of entry dicts
    input,          \* the entry list as it was when build_bundle was called
    pc,             \* position in main / build_bundle
    i,              \* index of the loop in progress
    offset,         \* running offset of the layout loop
    payload_start,
    out,            \* bytes written to the output file
    out_exists,     \* whether the output file exists
    err,            \* the exception that ended the run, "" if none
    calls,          \* number of build_bundle calls started
    first_out       \* output of the first call, once a second one has started

vars == <<mode, manifest, output_dir, entries, input, pc, i, offset,
          payload_start, out, out_exists, err, calls, first_out>>

Init ==
    /\ mode \in {"main", "api"}
    /\ IF mode = "main"
       THEN /\ manifest \in SeqsUpTo(MANIFEST_ITEMS, MaxItems)
            /\ output_dir \in OUTPUT_DIRS
            /\ entries = <<>>
            /\ pc = "load"
            /\ calls = 0
       ELSE /\ manifest = <<>>
            /\ output_dir = "out"
            /\ entries \in SeqsUpTo(API_ENTRIES, MaxEntryCount)
            /\ pc = "build"
            /\ calls = 1
    /\ input = entries
    /\ i = 1
    /\ offset = 0
    /\ payload_start = 0
    /\ out = <<>>
    /\ out_exists = FALSE
    /\ err = ""
    /\ first_out = <<>>

\* an exception leaves the run
Raise(e) == pc' = "failed" /\ err' = e

(* -------------------------------- main --------------------------------- *)

\* one iteration of load_entries' loop over the manifest
LoadItem ==
    /\ pc = "load" /\ i <= Len(manifest)
    /\ IF LoadError(manifest[i]) # ""
       THEN /\ Raise(LoadError(manifest[i]))
            /\ UNCHANGED <<entries, i>>
       ELSE /\ entries' = Append(entries, LoadedEntry(manifest[i]))
            /\ i' = i + 1
            /\ UNCHANGED <<pc, err>>
    /\ UNCHANGED <<mode, manifest, output_dir, input, offset, payload_start,
                   out, out_exists, calls, first_out>>

\* load_entries returns; "if not entries: sys.exit(1)"
CheckEmpty ==
    /\ pc = "load" /\ i > Len(manifest)
    /\ IF entries = <<>>
       THEN Raise("SystemExit")
       ELSE pc' = "makedirs" /\ UNCHANGED err
    /\ UNCHANGED <<mode, manifest, output_dir, entries, input, i, offset,
                   payload_start, out, out_exists, calls, first_out>>

\* os.makedirs(os.path.dirname(args.output), exist_ok=True), then the call
MakeDirs ==
    /\ pc = "makedirs"
    /\ IF output_dir = ""
       THEN /\ Raise("FileNotFoundError")
            /\ UNCHANGED <<input, calls>>
       ELSE /\ pc' = "build"
            /\ input' = entries
            /\ calls' = calls + 1
            /\ UNCHANGED err
    /\ UNCHANGED <<mode, manifest, output_dir, entries, i, offset,
                   payload_start, out, out_exists, first_out>>

(* ----------------------------- build_bundle --------------------------- *)

header_size == calcsize(HEADER_FMT)
entry_size == calcsize(ENTRY_FMT)

\* payload_start = align_up(header_size + entry_size * entry_count, ALIGN)
PayloadStart(entry_count) == align_up(header_size + entry_size * entry_count, ALIGN)

\* entry: the locals are computed and the layout loop starts at payload_start
BuildStart ==
    /\ pc = "build"
    /\ payload_start' = PayloadStart(Len(entries))
    /\ offset' = PayloadStart(Len(entries))
    /\ i' = 1
    /\ pc' = "layout"
    /\ UNCHANGED <<mode, manifest, output_dir, entries, input, out, out_exists,
                   err, calls, first_out>>

\* e["offset"] = offset; e["size"] = len(e["payload"]); e["checksum"] = 0
AssignLayoutNoChecksum(e, off) ==
    [e EXCEPT !.offset = off, !.size = Len(PayloadBytes(e))]
AssignLayoutAccumulate(e, off) ==
    [e EXCEPT !.offset = off,
              !.size = (IF e.size = Absent THEN 0 ELSE e.size) + Len(PayloadBytes(e)),
              !.checksum = 0]
AssignLayout(e, off) ==
    [e EXCEPT !.offset = off, !.size = Len(PayloadBytes(e)), !.checksum = 0]

\* offset = align_up(offset + e["size"], ALIGN)
NextOffsetOnePage(off, size) == off + ALIGN
NextOffset(off, size) == align_up(off + size, ALIGN)

\* one iteration of the layout loop
LayoutStep ==
    /\ pc = "layout" /\ i <= Len(entries)
    /\ entries' = [entries EXCEPT ![i] = AssignLayout(entries[i], offset)]
    /\ offset' = NextOffset(offset, entries'[i].size)
    /\ i' = i + 1
    /\ UNCHANGED <<mode, manifest, output_dir, input, pc, payload_start, out,
                   out_exists, err, calls, first_out>>

\* open(output_path, "wb"): the file is created, or truncated
OpenOutput ==
    /\ pc = "layout" /\ i > Len(entries)
    /\ out_exists' = TRUE
    /\ out' = <<>>
    /\ pc' = "header"
    /\ UNCHANGED <<mode, manifest, output_dir, entries, input, i, offset,
                   payload_start, err, calls, first_out>>

\* struct.pack(HEADER_FMT, MAGIC, VERSION, entry_count, header_size, b"\x00" * 8)
HeaderFits(entry_count) ==
    FitsU16(VERSION) /\ FitsU16(entry_count) /\ FitsU32(header_size)
PackHeader(entry_count) ==
    PackS(MAGIC, HEADER_FMT[1]) \o LE16(VERSION) \o LE16(entry_count)
        \o LE32(header_size) \o PackS(Zeros(8), HEADER_FMT[5])

\* the header write; a struct.error leaves the "with" block, which closes the file
WriteHeader ==
    /\ pc = "header"
    /\ IF HeaderFits(Len(entries))
       THEN /\ out' = out \o PackHeader(Len(entries))
            /\ pc' = "table"
            /\ i' = 1
            /\ UNCHANGED err
       ELSE /\ Raise("struct.error")
            /\ UNCHANGED <<out, i>>
    /\ UNCHANGED <<mode, manifest, output_dir, entries, input, offset,
                   payload_start, out_exists, calls, first_out>>

\* struct.pack(ENTRY_FMT, name_field, type, flags, b"\x00\x00", offset, size, checksum)
EntryFits(e) ==
    /\ FitsU8(e.type) /\ FitsU8(e.flags)
    /\ FitsU32(e.offset) /\ FitsU32(e.size) /\ FitsU32(e.checksum)
PackEntrySpacePadded(e) ==
    PackS(ljust_space(e.name, 32), ENTRY_FMT[1]) \o <<e.type>> \o <<e.flags>>
        \o PackS(Zeros(2), ENTRY_FMT[4])
        \o LE32(e.offset) \o LE32(e.size) \o LE32(e.checksum)
PackEntryBigEndian(e) ==
    PackS(ljust(e.name, 32), ENTRY_FMT[1]) \o <<e.type>> \o <<e.flags>>
        \o PackS(Zeros(2), ENTRY_FMT[4])
        \o BE32(e.offset) \o BE32(e.size) \o BE32(e.checksum)
PackEntry(e) ==
    PackS(ljust(e.name, 32), ENTRY_FMT[1]) \o <<e.type>> \o <<e.flags>>
        \o PackS(Zeros(2), ENTRY_FMT[4])
        \o LE32(e.offset) \o LE32(e.size) \o LE32(e.checksum)

\* one iteration of the table loop
WriteRecord ==
    /\ pc = "table" /\ i <= Len(entries)
    /\ IF EntryFits(entries[i])
       THEN /\ out' = out \o PackEntry(entries[i])
            /\ i' = i + 1
            /\ UNCHANGED <<pc, err>>
       ELSE /\ Raise("struct.error")
            /\ UNCHANGED <<out, i>>
    /\ UNCHANGED <<mode, manifest, output_dir, entries, input, offset,
                   payload_start, out_exists, calls, first_out>>

\* current = out.tell(); if current < payload_start: write the difference in zeros
PadTable ==
    /\ pc = "table" /\ i > Len(entries)
    /\ out' = IF Len(out) < payload_start
              THEN out \o Zeros(payload_start - Len(out))
              ELSE out
    /\ pc' = "payloads"
    /\ i' = 1
    /\ UNCHANGED <<mode, manifest, output_dir, entries, input, offset,
                   payload_start, out_exists, err, calls, first_out>>

\* next_off = align_up(current, ALIGN); the zeros written after a payload
\* ("if next_off > current")
PadAfterFullPage(current) == Zeros(ALIGN - (current % ALIGN))
PadAfter(current) ==
    IF align_up(current, ALIGN) > current
    THEN Zeros(align_up(current, ALIGN) - current)
    ELSE <<>>

\* one iteration of the payload loop: the payload, then its padding
WritePayload ==
    /\ pc = "payloads" /\ i <= Len(entries)
    /\ out' = (out \o PayloadBytes(entries[i]))
                  \o PadAfter(Len(out) + Len(PayloadBytes(entries[i])))
    /\ i' = i + 1
    /\ UNCHANGED <<mode, manifest, output_dir, entries, input, pc, offset,
                   payload_start, out_exists, err, calls, first_out>>

\* the "with" block ends and build_bundle returns
Return ==
    /\ pc = "payloads" /\ i > Len(entries)
    /\ pc' = "done"
    /\ UNCHANGED <<mode, manifest, output_dir, entries, input, i, offset,
                   payload_start, out, out_exists, err, calls, first_out>>

\* a direct caller calls build_bundle again with the very same list object
\* and the same output path
CallAgain ==
    /\ mode = "api" /\ pc = "done" /\ calls = 1
    /\ first_out' = out
    /\ input' = entries
    /\ calls' = 2
    /\ pc' = "build"
    /\ UNCHANGED <<mode, manifest, output_dir, entries, i, offset,
                   payload_start, out, out_exists, err>>

Next ==
    \/ LoadItem
    \/ CheckEmpty
    \/ MakeDirs
    \/ BuildStart
    \/ LayoutStep
    \/ OpenOutput
    \/ WriteHeader
    \/ WriteRecord
    \/ PadTable
    \/ WritePayload
    \/ Return
    \/ CallAgain

Spec == Init /\ [][Next]_vars

(* ------------------------- reading a bundle back ----------------------- *)

\* the little-endian number in the 4 bytes after position pos of f
\* (-1 if it exceeds the range of the model's integers)
U32At(f, pos) ==
    IF f[pos + 4] > 127 THEN -1
    ELSE f[pos + 1] + 256 * f[pos + 2] + 65536 * f[pos + 3] + 16777216 * f[pos + 4]

\* the fields of the k-th table record of f, per the 24-byte header and
\* 48-byte records of the container layout
RecBase(k) == 24 + 48 * (k - 1)
RecName(f, k) == SubSeq(f, RecBase(k) + 1, RecBase(k) + 32)
RecType(f, k) == f[RecBase(k) + 33]
RecFlags(f, k) == f[RecBase(k) + 34]
RecOffset(f, k) == U32At(f, RecBase(k) + 36)
RecSize(f, k) == U32At(f, RecBase(k) + 40)

\* the smallest multiple of 4096 that is >= v
Ceil4096(v) ==
    CHOOSE m \in { 4096 * j : j \in 0..(v \div 4096 + 1) } : m >= v /\ m - 4096 < v

\* a name load_entries accepts: 1..31 bytes, ASCII
ValidName(n) == Len(n) >= 1 /\ Len(n) <= 31 /\ \A k \in 1..Len(n) : n[k] < 128
ValidList(l) == Len(l) >= 1 /\ \A k \in 1..Len(l) : ValidName(l[k].name)

\* the layout loop of the current call has finished
LaidOut == pc \in {"header", "table", "payloads", "done"}
Assigned(k) == k \in 1..Len(entries) /\ entries[k].offset # Absent

(* -------------------------------- claims ------------------------------ *)

\* C1: round trip.  When build_bundle has returned for a valid entry list
\* (at least one entry, every name 1..31 ASCII bytes), the k-th table record
\* of the file carries the k-th input entry's name (null-padded to 32), type,
\* flags and size = len(payload), and the size bytes of the file that start
\* at the record's offset are exactly that entry's payload, for every k.
C1_RoundTrip ==
    (pc = "done" /\ ValidList(input)) =>
        \A k \in 1..Len(input) :
            /\ RecName(out, k) = input[k].name \o Zeros(32 - Len(input[k].name))
            /\ RecType(out, k) = input[k].type
            /\ RecFlags(out, k) = input[k].flags
            /\ RecSize(out, k) = Len(PayloadBytes(input[k]))
            /\ RecOffset(out, k) >= 0
            /\ RecOffset(out, k) + RecSize(out, k) <= Len(out)
            /\ SubSeq(out, RecOffset(out, k) + 1, RecOffset(out, k) + RecSize(out, k))
                   = PayloadBytes(input[k])

\* a three-entry bundle with an empty payload, a payload of exactly one page
\* and one that crosses a page has been written
C1_Witness ==
    /\ pc = "done" /\ ValidList(input) /\ Len(input) = 3
    /\ \E a, b, c \in 1..3 :
           /\ Len(PayloadBytes(input[a])) = 0
           /\ Len(PayloadBytes(input[b])) = 4096
           /\ Len(PayloadBytes(input[c])) = 5000

\* C2: every offset the layout loop has assigned is a multiple of 4096 and
\* >= payloadStart = the smallest multiple of 4096 that is >= 24 + 48*N, and
\* the first entry's offset is payloadStart.
C2_OffsetsAligned ==
    \A k \in 1..Len(entries) :
        Assigned(k) =>
            /\ entries[k].offset % 4096 = 0
            /\ entries[k].offset >= Ceil4096(24 + 48 * Len(entries))
            /\ (k = 1 => entries[k].offset = Ceil4096(24 + 48 * Len(entries)))

\* the layout loop has gone through three entries, one of them past a page
C2_Witness ==
    /\ LaidOut /\ Len(entries) = 3
    /\ \E k \in 1..3 : entries[k].size = 5000

\* C3: entries never overlap.  For consecutive entries with assigned offsets,
\* the next offset is exactly the smallest multiple of 4096 that is >= the
\* previous offset + size; the byte ranges [offset, offset+size) of any two
\* distinct entries are disjoint; and once the file is written each range
\* lies within the file.
C3_NoOverlap ==
    /\ \A k \in 1..Len(entries) :
           (Assigned(k) /\ Assigned(k + 1)) =>
               entries[k + 1].offset = Ceil4096(entries[k].offset + entries[k].size)
    /\ \A a, b \in 1..Len(entries) :
           (a # b /\ Assigned(a) /\ Assigned(b)) =>
               \/ entries[a].offset + entries[a].size <= entries[b].offset
               \/ entries[b].offset + entries[b].size <= entries[a].offset
    /\ pc = "done" =>
           \A k \in 1..Len(entries) :
               entries[k].offset + entries[k].size <= Len(out)

\* an entry larger than a page is followed by another entry, all written
C3_Witness ==
    /\ pc = "done" /\ Len(entries) = 3
    /\ entries[1].size = 5000 /\ entries[2].size = 4096

\* C4 as stated: the entry after a zero-length entry lies 4096 bytes past it,
\* and a file whose last entry is zero-length extends 4096 bytes past that
\* entry's offset.
C4_ZeroLengthReservesPage ==
    \A k \in 1..Len(entries) :
        (Assigned(k) /\ entries[k].size = 0) =>
            /\ Assigned(k + 1) => entries[k + 1].offset = entries[k].offset + 4096
            /\ (pc = "done" /\ k = Len(entries)) => Len(out) = entries[k].offset + 4096

\* the scenario init/10 bytes, drv0/5000 bytes, svc0/0 bytes, through main
Scenario ==
    /\ mode = "main" /\ Len(manifest) = 3
    /\ manifest[1].name = NameInit /\ manifest[1].path = "init.bin"
    /\ manifest[2].name = NameDrv0 /\ manifest[2].path = "drv0.bin"
    /\ manifest[3].name = NameSvc0 /\ manifest[3].path = "svc0.bin"

\* C4 amended: a zero-length payload reserves no bytes.  The entry after a
\* zero-length entry is assigned the same offset, and a file whose last entry
\* is zero-length ends exactly at that entry's offset; in the scenario the
\* offsets are 4096, 8192, 16384 and the file is 16384 bytes long.
C4_ZeroLengthReservesNothing ==
    /\ \A k \in 1..Len(entries) :
           (Assigned(k) /\ entries[k].size = 0) =>
               /\ Assigned(k + 1) => entries[k + 1].offset = entries[k].offset
               /\ (pc = "done" /\ k = Len(entries)) => Len(out) = entries[k].offset
    /\ (Scenario /\ pc = "done") =>
           /\ entries[1].offset = 4096
           /\ entries[2].offset = 8192
           /\ entries[3].offset = 16384
           /\ Len(out) = 16384

\* the scenario's bundle has been written
C4_Witness == Scenario /\ pc = "done" /\ entries[3].size = 0

\* the name of a manifest item is empty, longer than 31 bytes or not ASCII
BadName(n) == Len(n) = 0 \/ Len(n) > 31 \/ \E k \in 1..Len(n) : n[k] >= 128

C6_AllOrNothing ==
    (mode = "main" /\ pc = "failed") => ~out_exists

C8_Idempotent ==
    (calls = 2 /\ pc = "done") => out = first_out

\* the second call on a three-entry list has returned
C8_Witness ==
    /\ calls = 2 /\ pc = "done" /\ Len(entries) = 3
    /\ input[1].offset # Absent
    /\ \E k \in 1..3 : entries[k].size = 5000

\* C9: name field.  For every entry load_entries accepted, the 32-byte name
\* field of its written record is the name's bytes followed only by zero
\* bytes, at least one of them (exactly one for a 31-byte name).
C9_NameField ==
    (mode = "main" /\ pc \in {"table", "payloads", "done"}) =>
        \A k \in 1..Len(input) :
            (pc # "table" \/ k < i) =>
                /\ Len(input[k].name) <= 31
                /\ SubSeq(RecName(out, k), 1, Len(input[k].name)) = input[k].name
                /\ \A j \in (Len(input[k].name) + 1)..32 : RecName(out, k)[j] = 0
                /\ RecName(out, k)[32] = 0

\* main has written the record of an entry with a 31-byte name
C9_Witness ==
    /\ mode = "main" /\ pc = "done"
    /\ \E k \in 1..Len(input) : Len(input[k].name) = 31
    /\ \E k \in 1..Len(input) : Len(input[k].name) = 4

\* C10: the two passes agree.  In the payload loop the write position before
\* entry i's payload is the offset the layout loop assigned to entry i; after
\* the last write the file length is the layout loop's final running offset,
\* a multiple of 4096.
C10_PassesAgree ==
    /\ (pc = "payloads" /\ i <= Len(entries)) => Len(out) = entries[i].offset
    /\ ((pc = "payloads" /\ i > Len(entries)) \/ pc = "done") =>
           /\ Len(out) = offset
           /\ offset % 4096 = 0

\* the payload loop is about to write the third payload, after an empty one
\* and one of exactly a page
C10_Witness ==
    /\ pc = "payloads" /\ i = 3 /\ Len(entries) = 3
    /\ entries[1].size = 0 /\ entries[2].size = 4096

====
